---- MODULE Spec2Model ----
(***************************************************************************)
(* The two console board games of the repository as one state machine:     *)
(*   src/main_app.py  chess with the Wizard, Hunter and Archer pieces      *)
(*   src/checkers.py  checkers with men only                               *)
(* A session is a board, the side to move and the history of Move records. *)
(* The calls are the ones the play() loops make: a submitted pair of       *)
(* coordinates and an undo.  Coordinates are the integers parse_move can   *)
(* hand over; the board is a Python list of lists, so an index in -8..-1   *)
(* counts from the end and any other index outside 0..7 raises IndexError, *)
(* which play() does not catch.                                            *)
(* game says which of the two programs runs.  event and pre observe the    *)
(* last call: how it ended (init, moved, illegal, undone, nohistory, hint,  *)
(* threat, raised) and the session as it was when the call was made.       *)
(***************************************************************************)
EXTENDS Integers, Sequences, FiniteSets, TLC

VARIABLES game, board, turn, history, event, pre

vars == <<game, board, turn, history, event, pre>>

\* ------------------------------------------------------------------ bounds

\* Accepted submits are taken only while the history is shorter than this:
\* MaxHist in the checkers session, MaxChessHist in the chess session.
MaxHist == 3

MaxChessHist == 2

\* ------------------------------------------------------- Python primitives

Size == 8

Idx == 0 .. (Size - 1)

\* str.islower() / str.isupper() on the one-character cell values. ' ' is
\* neither lower nor upper.
LowerLetters == {"r", "n", "b", "q", "k", "p", "w", "h", "a"}

UpperLetters == {"R", "N", "B", "Q", "K", "P", "W", "H", "A"}

islower(c) == c \in LowerLetters

isupper(c) == c \in UpperLetters

\* str.lower() on a cell value.
lower(c) ==
  CASE c = "R" -> "r" [] c = "N" -> "n" [] c = "B" -> "b" [] c = "Q" -> "q"
    [] c = "K" -> "k" [] c = "P" -> "p" [] c = "W" -> "w" [] c = "H" -> "h"
    [] c = "A" -> "a" [] OTHER -> c

abs(n) == IF n < 0 THEN -n ELSE n

\* list[i]: a negative index counts from the end of the list.
PyIndex(i) == IF i < 0 THEN i + Size ELSE i

\* list[i] raises IndexError outside -len..len-1.
IndexOk(i) == i >= -Size /\ i < Size

\* board[y][x] for a position (x, y); positions are <<x, y>>.
PosOk(pos) == IndexOk(pos[1]) /\ IndexOk(pos[2])

\* The board is the list of rows; a TLA+ sequence counts from 1, so row y of the
\* Python list is element y + 1.
Cell(b, pos) == b[PyIndex(pos[2]) + 1][PyIndex(pos[1]) + 1]

\* board[y][x] = v
SetCell(b, pos, v) ==
  [b EXCEPT ![PyIndex(pos[2]) + 1][PyIndex(pos[1]) + 1] = v]

\* The pairs (start, end) of squares of S that index the board, and those for
\* which board[y][x] raises IndexError.
Indexing(S) == { p \in S \X S : PosOk(p[1]) /\ PosOk(p[2]) }

Raising(S) == (S \X S) \ Indexing(S)

\* The value of a Python None (captured_position of a simple checkers move).
None == <<>>

Other(t) == IF t = "white" THEN "black" ELSE "white"

\* --------------------------------------------------------------- chess

\* ChessBoard.__init__: the standard placement, then lines 119-124 put the
\* Wizards on c8/c1, the Hunters on f8/f1 and the Archers on d8/d1.
ChessInitBoard ==
  LET std == <<
        <<"r", "n", "b", "q", "k", "b", "n", "r">>,
        <<"p", "p", "p", "p", "p", "p", "p", "p">>,
        <<" ", " ", " ", " ", " ", " ", " ", " ">>,
        <<" ", " ", " ", " ", " ", " ", " ", " ">>,
        <<" ", " ", " ", " ", " ", " ", " ", " ">>,
        <<" ", " ", " ", " ", " ", " ", " ", " ">>,
        <<"P", "P", "P", "P", "P", "P", "P", "P">>,
        <<"R", "N", "B", "Q", "K", "B", "N", "R">> >>
  IN SetCell(SetCell(SetCell(SetCell(SetCell(SetCell(std,
       <<2, 0>>, "w"), <<2, 7>>, "W"), <<5, 0>>, "h"), <<5, 7>>, "H"),
       <<3, 0>>, "a"), <<3, 7>>, "A")

\* Wizard.is_valid_move as it would be if the teleport did not look at the
\* target square.
Wizard_is_valid_move_any_target(start, end, b) == TRUE

\* Wizard.is_valid_move
Wizard_is_valid_move(start, end, b) ==
  LET dx == abs(end[1] - start[1])
      dy == abs(end[2] - start[2])
      target == Cell(b, end)
  IN IF dx <= 1 /\ dy <= 1 THEN TRUE
     ELSE IF target = " " THEN TRUE
     ELSE FALSE

\* Hunter.is_valid_move as it would be with 'dx == 2 or dy == 2' style
\* conditions: the diagonal (2, 2) passes.
Hunter_is_valid_move_diagonal(start, end, b) ==
  LET dx == abs(end[1] - start[1])
      dy == abs(end[2] - start[2])
  IN (dx = 2 /\ dy \in {0, 2}) \/ (dx = 0 /\ dy = 2)

\* Hunter.is_valid_move
Hunter_is_valid_move(start, end, b) ==
  LET dx == abs(end[1] - start[1])
      dy == abs(end[2] - start[2])
  IN (dx = 2 /\ dy = 0) \/ (dx = 0 /\ dy = 2)

\* Archer.is_valid_move. The condition of line 93,
\*   target != ' ' and target.islower() != self.color == 'white'
\* is a chained comparison: (target.islower() != self.color) and
\* (self.color == 'white'). A bool never equals a str, so the first half is
\* always True.
BoolNeStr(bool, str) == TRUE

Archer_is_valid_move(color, start, end, b) ==
  LET dx == abs(end[1] - start[1])
      dy == abs(end[2] - start[2])
      target == Cell(b, end)
  IN IF (dx = 3 /\ dy = 0) \/ (dx = 0 /\ dy = 3)
     THEN target # " " /\ BoolNeStr(islower(target), color) /\ color = "white"
     ELSE FALSE

PieceColor(piece) == IF isupper(piece) THEN "white" ELSE "black"

\* is_valid_move as it would be without lines 188-190: nothing looks at
\* whose piece stands on the end square.
ChessBoard_is_valid_move_takes_own(b, start, end, t) ==
  LET piece == Cell(b, start)
  IN IF t = "white" /\ islower(piece) THEN FALSE
     ELSE IF t = "black" /\ isupper(piece) THEN FALSE
     ELSE IF lower(piece) = "w" THEN Wizard_is_valid_move(start, end, b)
     ELSE IF lower(piece) = "h" THEN Hunter_is_valid_move(start, end, b)
     ELSE IF lower(piece) = "a"
          THEN Archer_is_valid_move(PieceColor(piece), start, end, b)
     ELSE TRUE

\* is_valid_move as it would be with a rule for the King: one square in any
\* direction.
ChessBoard_is_valid_move_king_steps(b, start, end, t) ==
  LET piece == Cell(b, start)
      target == Cell(b, end)
  IN IF t = "white" /\ islower(piece) THEN FALSE
     ELSE IF t = "black" /\ isupper(piece) THEN FALSE
     ELSE IF target # " " /\ ((t = "white" /\ isupper(target))
                              \/ (t = "black" /\ islower(target))) THEN FALSE
     ELSE IF lower(piece) = "w" THEN Wizard_is_valid_move(start, end, b)
     ELSE IF lower(piece) = "h" THEN Hunter_is_valid_move(start, end, b)
     ELSE IF lower(piece) = "a"
          THEN Archer_is_valid_move(PieceColor(piece), start, end, b)
     ELSE IF lower(piece) = "k"
          THEN abs(end[1] - start[1]) <= 1 /\ abs(end[2] - start[2]) <= 1
     ELSE TRUE

\* ChessBoard.is_valid_move, for positions that index the board.
ChessBoard_is_valid_move(b, start, end, t) ==
  LET piece == Cell(b, start)
      target == Cell(b, end)
  IN IF t = "white" /\ islower(piece) THEN FALSE
     ELSE IF t = "black" /\ isupper(piece) THEN FALSE
     ELSE IF target # " " /\ ((t = "white" /\ isupper(target))
                              \/ (t = "black" /\ islower(target))) THEN FALSE
     ELSE IF lower(piece) = "w" THEN Wizard_is_valid_move(start, end, b)
     ELSE IF lower(piece) = "h" THEN Hunter_is_valid_move(start, end, b)
     ELSE IF lower(piece) = "a"
          THEN Archer_is_valid_move(PieceColor(piece), start, end, b)
     ELSE TRUE

\* Move(start, end, piece, captured_piece) of main_app.py
ChessMove(start, end, piece, captured) ==
  [start |-> start, end |-> end, piece |-> piece, captured_piece |-> captured]

\* ChessBoard.move_piece: the record it returns and the board it leaves.
ChessBoard_move_piece_result(b, start, end) ==
  ChessMove(start, end, Cell(b, start), Cell(b, end))

\* move_piece as it would be without line 151: the start square keeps its
\* piece.
ChessBoard_move_piece_keeps_start(b, start, end) ==
  SetCell(b, end, Cell(b, start))

ChessBoard_move_piece(b, start, end) ==
  SetCell(SetCell(b, end, Cell(b, start)), start, " ")

\* undo_move as it would be if it cleared the end square instead of putting
\* the captured piece back.
ChessBoard_undo_move_drops_captured(b, move) ==
  SetCell(SetCell(b, move.start, move.piece), move.end, " ")

\* undo_move as it would be without line 164: the piece that moved stays on
\* the end square as well.
ChessBoard_undo_move_keeps_end(b, move) ==
  SetCell(b, move.start, move.piece)

\* ChessBoard.undo_move
ChessBoard_undo_move(b, move) ==
  SetCell(SetCell(b, move.start, move.piece), move.end, move.captured_piece)

\* The positions in the order of the scans 'for y in range(8): for x in
\* range(8)'.
RowMajor == [k \in 1 .. Size * Size |-> <<(k - 1) % Size, (k - 1) \div Size>>]

\* ChessBoard.get_available_moves, for a start that indexes the board: the
\* list of end squares.
ChessBoard_get_available_moves(b, start, t) ==
  LET piece == Cell(b, start)
      Valid(end) == ChessBoard_is_valid_move(b, start, end, t)
  IN IF t = "white" /\ islower(piece) THEN <<>>
     ELSE IF t = "black" /\ isupper(piece) THEN <<>>
     ELSE SelectSeq(RowMajor, Valid)

\* ChessBoard.is_under_attack(position, turn)
ChessBoard_is_under_attack(b, position, t) ==
  \E k \in 1 .. Size * Size :
    LET piece == Cell(b, RowMajor[k])
    IN /\ piece # " "
       /\ (t = "white" /\ islower(piece)) \/ (t = "black" /\ isupper(piece))
       /\ ChessBoard_is_valid_move(b, RowMajor[k], position, Other(t))

\* get_threatened_pieces as it would be without the test of line 267 for
\* whose piece stands on the cell: every attacked cell is reported.
ChessBoard_get_threatened_pieces_any_cell(b, t) ==
  LET Threatened(pos) == ChessBoard_is_under_attack(b, pos, t)
  IN SelectSeq(RowMajor, Threatened)

\* ChessBoard.get_threatened_pieces(turn): the list of positions.
ChessBoard_get_threatened_pieces(b, t) ==
  LET Threatened(pos) ==
        LET piece == Cell(b, pos)
        IN /\ piece # " "
           /\ (t = "white" /\ isupper(piece))
              \/ (t = "black" /\ islower(piece))
           /\ ChessBoard_is_under_attack(b, pos, t)
  IN SelectSeq(RowMajor, Threatened)

\* is_in_check as it would be with the two king symbols of line 281 swapped.
ChessBoard_is_in_check_other_king(b, t) ==
  LET king_symbol == IF t = "white" THEN "k" ELSE "K"
      IsKing(pos) == Cell(b, pos) = king_symbol
      kings == SelectSeq(RowMajor, IsKing)
  IN IF kings = <<>> THEN FALSE
     ELSE ChessBoard_is_under_attack(b, kings[1], t)

\* ChessBoard.is_in_check(turn): the first cell of the scan that holds the
\* king symbol decides.
ChessBoard_is_in_check(b, t) ==
  LET king_symbol == IF t = "white" THEN "K" ELSE "k"
      IsKing(pos) == Cell(b, pos) = king_symbol
      kings == SelectSeq(RowMajor, IsKing)
  IN IF kings = <<>> THEN FALSE
     ELSE ChessBoard_is_under_attack(b, kings[1], t)

\* ------------------------------------------------------------- session

Snapshot == [board |-> board, turn |-> turn, history |-> history]

InitChess ==
  /\ game = "chess"
  /\ board = ChessInitBoard
  /\ turn = "white"
  /\ history = <<>>
  /\ event = "init"
  /\ pre = [board |-> ChessInitBoard, turn |-> "white", history |-> <<>>]

\* The squares the submitted moves are drawn from: c8 (black Wizard), d7 (black
\* pawn), g8 (black knight), e1 (white King), f1 (white Hunter), f3 (empty),
\* 'd9' (rank index -1, which the list takes for row 7: d1, the white Archer)
\* and 'd0' (rank index 8, an IndexError).
ChessSquares ==
  { <<2, 0>>, <<3, 1>>, <<6, 0>>, <<4, 7>>, <<5, 7>>, <<5, 5>>,
    <<3, -1>>, <<3, 8>> }

\* The submitted pairs is_valid_move answers False to.
ChessRejected(b, t) ==
  { p \in Indexing(ChessSquares) :
      ~ChessBoard_is_valid_move(b, p[1], p[2], t) }

\* One round of ChessGame.play with a two-word input: lines 402-413. The
\* three outcomes are the IndexError of a position that does not index the
\* board (play() does not catch it: the program ends), the rejected move and
\* the accepted move.
ChessSubmit ==
  /\ game = "chess"
  /\ event # "raised"
  /\ pre' = Snapshot
  /\ game' = game
  /\ \/ /\ Raising(ChessSquares) # {}
        /\ event' = "raised"
        /\ UNCHANGED <<board, turn, history>>
     \/ /\ ChessRejected(board, turn) # {}
        /\ event' = "illegal"
        /\ UNCHANGED <<board, turn, history>>
     \/ \E start \in ChessSquares : \E end \in ChessSquares :
          /\ PosOk(start) /\ PosOk(end)
          /\ ChessBoard_is_valid_move(board, start, end, turn)
          /\ Len(history) < MaxChessHist
          /\ event' = "moved"
          /\ board' = ChessBoard_move_piece(board, start, end)
          /\ history' = Append(history,
                          ChessBoard_move_piece_result(board, start, end))
          /\ turn' = Other(turn)

\* The undo round as it would be if line 380 stood after the if/else: the
\* side to move flips even when there is nothing to undo.
ChessUndoFlipsAlways ==
  /\ game = "chess"
  /\ event # "raised"
  /\ pre' = Snapshot
  /\ game' = game
  /\ turn' = Other(turn)
  /\ IF history = <<>>
     THEN /\ event' = "nohistory"
          /\ UNCHANGED <<board, history>>
     ELSE /\ event' = "undone"
          /\ history' = SubSeq(history, 1, Len(history) - 1)
          /\ board' = ChessBoard_undo_move(board, history[Len(history)])

\* The undo round as it would be without line 379: the record is popped and
\* the board stays.
ChessUndoKeepsBoard ==
  /\ game = "chess"
  /\ event # "raised"
  /\ pre' = Snapshot
  /\ game' = game
  /\ IF history = <<>>
     THEN /\ event' = "nohistory"
          /\ UNCHANGED <<board, turn, history>>
     ELSE /\ event' = "undone"
          /\ history' = SubSeq(history, 1, Len(history) - 1)
          /\ board' = board
          /\ turn' = Other(turn)

\* One round of ChessGame.play with the input 'undo': lines 374-381.
ChessUndo ==
  /\ game = "chess"
  /\ event # "raised"
  /\ pre' = Snapshot
  /\ game' = game
  /\ IF history = <<>>
     THEN /\ event' = "nohistory"
          /\ UNCHANGED <<board, turn, history>>
     ELSE /\ event' = "undone"
          /\ history' = SubSeq(history, 1, Len(history) - 1)
          /\ board' = ChessBoard_undo_move(board, history[Len(history)])
          /\ turn' = Other(turn)

\* One round of ChessGame.play with the input 'hint <square>': lines 384-390
\* and show_available_moves. The moves are marked on a copy of the rows
\* (line 325); a start that does not index the board raises IndexError in
\* get_available_moves.
ChessHint ==
  /\ game = "chess"
  /\ event # "raised"
  /\ pre' = Snapshot
  /\ game' = game
  /\ UNCHANGED <<board, turn, history>>
  /\ \/ /\ \E start \in ChessSquares : ~PosOk(start)
        /\ event' = "raised"
     \/ /\ \E start \in ChessSquares : PosOk(start)
        /\ event' = "hint"

\* One round of ChessGame.play with the input 'threat': lines 393-395 and
\* show_threatened_pieces, which calls get_threatened_pieces and is_in_check
\* and marks a copy of the rows (line 346).
ChessThreat ==
  /\ game = "chess"
  /\ event # "raised"
  /\ pre' = Snapshot
  /\ game' = game
  /\ event' = "threat"
  /\ UNCHANGED <<board, turn, history>>

NextChess == ChessSubmit \/ ChessUndo \/ ChessHint \/ ChessThreat

SpecChess == InitChess /\ [][NextChess]_vars

\* ------------------------------------------------------------- checkers

\* CheckersBoard.__init__
CheckersInitBoard ==
  <<
    <<" ", "b", " ", "b", " ", "b", " ", "b">>,
    <<"b", " ", "b", " ", "b", " ", "b", " ">>,
    <<" ", "b", " ", "b", " ", "b", " ", "b">>,
    <<" ", " ", " ", " ", " ", " ", " ", " ">>,
    <<" ", " ", " ", " ", " ", " ", " ", " ">>,
    <<"w", " ", "w", " ", "w", " ", "w", " ">>,
    <<" ", "w", " ", "w", " ", "w", " ", "w">>,
    <<"w", " ", "w", " ", "w", " ", "w", " ">> >>

\* (x1 + x2) // 2: Python's floor division by 2.
FloorHalf(n) == IF n >= 0 THEN n \div 2 ELSE -((1 - n) \div 2)

\* The pair CheckersBoard.is_valid_move returns.
Verdict(ok, pos) == [ok |-> ok, captured_position |-> pos]

\* is_valid_move as it would be without lines 161-162: a jump over any man,
\* an own one included.
CheckersBoard_is_valid_move_jumps_own(b, start, end, t) ==
  LET piece == Cell(b, start)
      target == Cell(b, end)
      dx == abs(end[1] - start[1])
      dy == abs(end[2] - start[2])
      jump == <<FloorHalf(start[1] + end[1]), FloorHalf(start[2] + end[2])>>
      jumped_piece == Cell(b, jump)
  IN IF t = "white" /\ piece # "w" THEN Verdict(FALSE, None)
     ELSE IF t = "black" /\ piece # "b" THEN Verdict(FALSE, None)
     ELSE IF target # " " THEN Verdict(FALSE, None)
     ELSE IF dx # dy THEN Verdict(FALSE, None)
     ELSE IF piece = "w" /\ end[2] >= start[2] THEN Verdict(FALSE, None)
     ELSE IF piece = "b" /\ end[2] <= start[2] THEN Verdict(FALSE, None)
     ELSE IF dx = 2
          THEN IF jumped_piece = " " THEN Verdict(FALSE, None)
               ELSE Verdict(TRUE, jump)
     ELSE Verdict(TRUE, None)

\* is_valid_move as it would be without lines 144-145: the move need not be
\* diagonal.
CheckersBoard_is_valid_move_any_line(b, start, end, t) ==
  LET piece == Cell(b, start)
      target == Cell(b, end)
      dx == abs(end[1] - start[1])
      jump == <<FloorHalf(start[1] + end[1]), FloorHalf(start[2] + end[2])>>
      jumped_piece == Cell(b, jump)
  IN IF t = "white" /\ piece # "w" THEN Verdict(FALSE, None)
     ELSE IF t = "black" /\ piece # "b" THEN Verdict(FALSE, None)
     ELSE IF target # " " THEN Verdict(FALSE, None)
     ELSE IF piece = "w" /\ end[2] >= start[2] THEN Verdict(FALSE, None)
     ELSE IF piece = "b" /\ end[2] <= start[2] THEN Verdict(FALSE, None)
     ELSE IF dx = 2
          THEN IF jumped_piece = " " THEN Verdict(FALSE, None)
               ELSE IF (t = "white" /\ jumped_piece # "b")
                       \/ (t = "black" /\ jumped_piece # "w")
               THEN Verdict(FALSE, None)
               ELSE Verdict(TRUE, jump)
     ELSE Verdict(TRUE, None)

\* is_valid_move as it would be without lines 148-151: a man may move
\* backwards as well.
CheckersBoard_is_valid_move_any_way(b, start, end, t) ==
  LET piece == Cell(b, start)
      target == Cell(b, end)
      dx == abs(end[1] - start[1])
      dy == abs(end[2] - start[2])
      jump == <<FloorHalf(start[1] + end[1]), FloorHalf(start[2] + end[2])>>
      jumped_piece == Cell(b, jump)
  IN IF t = "white" /\ piece # "w" THEN Verdict(FALSE, None)
     ELSE IF t = "black" /\ piece # "b" THEN Verdict(FALSE, None)
     ELSE IF target # " " THEN Verdict(FALSE, None)
     ELSE IF dx # dy THEN Verdict(FALSE, None)
     ELSE IF dx = 2
          THEN IF jumped_piece = " " THEN Verdict(FALSE, None)
               ELSE IF (t = "white" /\ jumped_piece # "b")
                       \/ (t = "black" /\ jumped_piece # "w")
               THEN Verdict(FALSE, None)
               ELSE Verdict(TRUE, jump)
     ELSE Verdict(TRUE, None)

\* CheckersBoard.is_valid_move, for positions that index the board.
CheckersBoard_is_valid_move(b, start, end, t) ==
  LET piece == Cell(b, start)
      target == Cell(b, end)
      dx == abs(end[1] - start[1])
      dy == abs(end[2] - start[2])
      jump == <<FloorHalf(start[1] + end[1]), FloorHalf(start[2] + end[2])>>
      jumped_piece == Cell(b, jump)
  IN IF t = "white" /\ piece # "w" THEN Verdict(FALSE, None)
     ELSE IF t = "black" /\ piece # "b" THEN Verdict(FALSE, None)
     ELSE IF target # " " THEN Verdict(FALSE, None)
     ELSE IF dx # dy THEN Verdict(FALSE, None)
     ELSE IF piece = "w" /\ end[2] >= start[2] THEN Verdict(FALSE, None)
     ELSE IF piece = "b" /\ end[2] <= start[2] THEN Verdict(FALSE, None)
     ELSE IF dx = 2
          THEN IF jumped_piece = " " THEN Verdict(FALSE, None)
               ELSE IF (t = "white" /\ jumped_piece # "b")
                       \/ (t = "black" /\ jumped_piece # "w")
               THEN Verdict(FALSE, None)
               ELSE Verdict(TRUE, jump)
     ELSE Verdict(TRUE, None)

\* Move(start, end, piece, captured_piece, captured_position) of checkers.py
CheckersMove(start, end, piece, captured, pos) ==
  [start |-> start, end |-> end, piece |-> piece,
   captured_piece |-> captured, captured_position |-> pos]

\* CheckersBoard.move_piece: the record it returns and the board it leaves.
\* 'not captured_position' is true of None only: a tuple of two is truthy.
CheckersBoard_move_piece_result(b, start, end, pos) ==
  CheckersMove(start, end, Cell(b, start),
               IF pos = None THEN Cell(b, end) ELSE Cell(b, pos), pos)

\* move_piece as it would be without lines 91-92: the jumped man stays on
\* the board.
CheckersBoard_move_piece_keeps_jumped(b, start, end, pos) ==
  SetCell(SetCell(b, end, Cell(b, start)), start, " ")

CheckersBoard_move_piece(b, start, end, pos) ==
  LET moved == SetCell(SetCell(b, end, Cell(b, start)), start, " ")
  IN IF pos # None THEN SetCell(moved, pos, " ") ELSE moved

\* undo_move as it would be without lines 108-110: the jumped man stays off.
CheckersBoard_undo_move_drops_captured(b, move) ==
  SetCell(SetCell(b, move.start, move.piece), move.end, " ")

\* CheckersBoard.undo_move
CheckersBoard_undo_move(b, move) ==
  LET back == SetCell(SetCell(b, move.start, move.piece), move.end, " ")
  IN IF move.captured_position # None
     THEN SetCell(back, move.captured_position, move.captured_piece)
     ELSE back

\* The directions of line 182, in its order.
Directions == << <<-1, -1>>, <<1, -1>>, <<-1, 1>>, <<1, 1>> >>

\* Lines 183-190 of get_possible_moves for the man on (x, y) and one
\* direction: the list of the moves appended, none or one.
PossibleMovesToward(b, pos, d) ==
  LET new == <<pos[1] + d[1], pos[2] + d[2]>>
      jump == <<new[1] + d[1], new[2] + d[2]>>
  IN IF new[1] \in Idx /\ new[2] \in Idx
     THEN IF Cell(b, new) = " " THEN << <<pos, new>> >>
          ELSE IF abs(new[1] - pos[1]) = 1 /\ abs(new[2] - pos[2]) = 1
               THEN IF /\ jump[1] \in Idx /\ jump[2] \in Idx
                       /\ Cell(b, jump) = " "
                    THEN << <<pos, jump>> >>
                    ELSE <<>>
          ELSE <<>>
     ELSE <<>>

\* The moves appended while the scan is on its first k cells.
RECURSIVE PossibleMovesUpTo(_, _, _)
PossibleMovesUpTo(b, t, k) ==
  IF k = 0 THEN <<>>
  ELSE LET pos == RowMajor[k]
           piece == Cell(b, pos)
       IN IF (t = "white" /\ piece = "w") \/ (t = "black" /\ piece = "b")
          THEN PossibleMovesUpTo(b, t, k - 1)
                 \o PossibleMovesToward(b, pos, Directions[1])
                 \o PossibleMovesToward(b, pos, Directions[2])
                 \o PossibleMovesToward(b, pos, Directions[3])
                 \o PossibleMovesToward(b, pos, Directions[4])
          ELSE PossibleMovesUpTo(b, t, k - 1)

\* CheckersBoard.get_possible_moves(turn): the list of (start, end) pairs.
CheckersBoard_get_possible_moves(b, t) == PossibleMovesUpTo(b, t, Size * Size)

InitCheckers ==
  /\ game = "checkers"
  /\ board = CheckersInitBoard
  /\ turn = "white"
  /\ history = <<>>
  /\ event = "init"
  /\ pre = [board |-> CheckersInitBoard, turn |-> "white", history |-> <<>>]

\* The squares the submitted moves are drawn from: men of both sides, empty
\* squares between them, e4 (an empty square of the colour no man stands
\* on), file index -1 (which the list takes for file 7), 'a9' (rank index -1,
\* row 7) and 'a0' (rank index 8, an IndexError).
CheckersSquares ==
  { <<0, 5>>, <<2, 5>>, <<6, 5>>, <<1, 6>>, <<0, 7>>, <<3, 4>>, <<5, 4>>,
    <<4, 3>>, <<3, 2>>, <<5, 2>>, <<4, 4>>, <<-1, 4>>, <<0, -1>>, <<0, 8>> }

\* The submitted pairs is_valid_move answers (False, None) to.
CheckersRejected(b, t) ==
  { p \in Indexing(CheckersSquares) :
      ~CheckersBoard_is_valid_move(b, p[1], p[2], t).ok }

\* One round of CheckersGame.play with a two-word input: lines 244-256,
\* with the same three outcomes.
CheckersSubmit ==
  /\ game = "checkers"
  /\ event # "raised"
  /\ pre' = Snapshot
  /\ game' = game
  /\ \/ /\ Raising(CheckersSquares) # {}
        /\ event' = "raised"
        /\ UNCHANGED <<board, turn, history>>
     \/ /\ CheckersRejected(board, turn) # {}
        /\ event' = "illegal"
        /\ UNCHANGED <<board, turn, history>>
     \/ \E start \in CheckersSquares : \E end \in CheckersSquares :
          /\ PosOk(start) /\ PosOk(end)
          /\ CheckersBoard_is_valid_move(board, start, end, turn).ok
          /\ Len(history) < MaxHist
          /\ LET v == CheckersBoard_is_valid_move(board, start, end, turn)
                 pos == v.captured_position
             IN /\ event' = "moved"
                /\ board' = CheckersBoard_move_piece(board, start, end, pos)
                /\ history' = Append(history,
                     CheckersBoard_move_piece_result(board, start, end, pos))
                /\ turn' = Other(turn)

\* The undo round as it would be without line 236: the side to move stays.
CheckersUndoKeepsTurn ==
  /\ game = "checkers"
  /\ event # "raised"
  /\ pre' = Snapshot
  /\ game' = game
  /\ IF history = <<>>
     THEN /\ event' = "nohistory"
          /\ UNCHANGED <<board, turn, history>>
     ELSE /\ event' = "undone"
          /\ history' = SubSeq(history, 1, Len(history) - 1)
          /\ board' = CheckersBoard_undo_move(board, history[Len(history)])
          /\ turn' = turn

\* One round of CheckersGame.play with the input 'undo': lines 230-237.
CheckersUndo ==
  /\ game = "checkers"
  /\ event # "raised"
  /\ pre' = Snapshot
  /\ game' = game
  /\ IF history = <<>>
     THEN /\ event' = "nohistory"
          /\ UNCHANGED <<board, turn, history>>
     ELSE /\ event' = "undone"
          /\ history' = SubSeq(history, 1, Len(history) - 1)
          /\ board' = CheckersBoard_undo_move(board, history[Len(history)])
          /\ turn' = Other(turn)

NextCheckers == CheckersSubmit \/ CheckersUndo

SpecCheckers == InitCheckers /\ [][NextCheckers]_vars

\* The squares of CheckersSquares that are on the grid.
CheckersGridSquares == CheckersSquares \cap (Idx \X Idx)

\* The submitted pairs of squares of the grid is_valid_move answers
\* (False, None) to.
CheckersGridRejected(b, t) ==
  { p \in CheckersGridSquares \X CheckersGridSquares :
      ~CheckersBoard_is_valid_move(b, p[1], p[2], t).ok }

\* One round of CheckersGame.play with a two-word input, lines 244-256, when
\* both coordinates are on the grid: the rejected move and the accepted
\* move. The number of accepted moves is not limited.
CheckersGridSubmit ==
  /\ game = "checkers"
  /\ pre' = Snapshot
  /\ game' = game
  /\ \/ /\ CheckersGridRejected(board, turn) # {}
        /\ event' = "illegal"
        /\ UNCHANGED <<board, turn, history>>
     \/ \E start \in CheckersGridSquares : \E end \in CheckersGridSquares :
          /\ CheckersBoard_is_valid_move(board, start, end, turn).ok
          /\ LET v == CheckersBoard_is_valid_move(board, start, end, turn)
                 pos == v.captured_position
             IN /\ event' = "moved"
                /\ board' = CheckersBoard_move_piece(board, start, end, pos)
                /\ history' = Append(history,
                     CheckersBoard_move_piece_result(board, start, end, pos))
                /\ turn' = Other(turn)

\* The checkers session when only moves are submitted, with coordinates of
\* the grid, and nothing is taken back.
NextCheckersGrid == CheckersGridSubmit

SpecCheckersGrid == InitCheckers /\ [][NextCheckersGrid]_vars

\* Either program.
Init == InitChess \/ InitCheckers

Next == NextChess \/ NextCheckers

Spec == Init /\ [][Next]_vars

\* ---------------------------------------------------------------- claims

\* The squares of the grid, as positions (x, y) = (file, rank index).
Squares == Idx \X Idx

Sides == {"white", "black"}

\* The last Move of a non-empty history.
LastMove(h) == h[Len(h)]

\* A chess cell holds a piece of side t / of the other side.
Own(c, t) == (t = "white" /\ isupper(c)) \/ (t = "black" /\ islower(c))

Opposing(c, t) == Own(c, Other(t))

\* The man of a side in checkers.
Man(t) == IF t = "white" THEN "w" ELSE "b"

AbsDx(start, end) == abs(end[1] - start[1])

AbsDy(start, end) == abs(end[2] - start[2])

Chebyshev(start, end) ==
  IF AbsDx(start, end) >= AbsDy(start, end) THEN AbsDx(start, end)
  ELSE AbsDy(start, end)

\* The row of the grid a submitted rank index stands for.
Rank(pos) == PyIndex(pos[2])

\* C1: in the chess session an accepted submit immediately followed by undo
\* leaves the board, the side to move and the history as they were before
\* the submit (pre, in the state between the two calls).
C1_ChessUndoInverse ==
  [][(game = "chess" /\ event = "moved" /\ event' = "undone")
       => /\ board' = pre.board
          /\ turn' = pre.turn
          /\ history' = pre.history]_vars

\* An undo has just taken back a capturing chess move: the captured piece is
\* on its square again.
C1_Witness ==
  /\ game = "chess" /\ event = "undone"
  /\ LET m == LastMove(pre.history)
     IN /\ m.captured_piece # " "
        /\ Cell(pre.board, m.end) = m.piece
        /\ Cell(board, m.end) = m.captured_piece
        /\ Cell(board, m.start) = m.piece

\* C2: in the checkers session an accepted submit immediately followed by
\* undo leaves the board, the side to move and the history as they were
\* before the submit, for steps and for jumps.
C2_CheckersUndoInverse ==
  [][(game = "checkers" /\ event = "moved" /\ event' = "undone")
       => /\ board' = pre.board
          /\ turn' = pre.turn
          /\ history' = pre.history]_vars

\* An undo has just taken back a jump: the jumped man is back and the end
\* square is empty again.
C2_Witness ==
  /\ game = "checkers" /\ event = "undone"
  /\ LET m == LastMove(pre.history)
     IN /\ m.captured_position # None
        /\ Cell(pre.board, m.captured_position) = " "
        /\ m.piece = Man(turn)
        /\ Cell(board, m.captured_position) = Man(Other(turn))
        /\ Cell(board, m.end) = " "

\* C3: in both sessions a rejected submit (IllegalMove) and an undo with an
\* empty history (NoHistory) leave board, side to move and history unchanged.
C3_FailedCallChangesNothing ==
  [][event' \in {"illegal", "nohistory"}
       => UNCHANGED <<board, turn, history>>]_vars

\* A submit has just been rejected in the middle of a game, with Black to
\* move: the session is what it was before the call.
C3_Witness ==
  /\ event = "illegal" /\ history # <<>> /\ turn = "black"
  /\ pre = Snapshot

\* C4: chess is_valid_move is False whenever the start square does not hold
\* a piece of the side, an Empty start included; every accepted submit moved
\* a piece of the side to move, had start # end and left a piece of the mover
\* on the end square.
C4_MoverOwnsStart ==
  game = "chess" =>
    /\ \A t \in Sides : \A start \in Squares : \A end \in Squares :
         ~Own(Cell(board, start), t)
           => ~ChessBoard_is_valid_move(board, start, end, t)
    /\ event = "moved" =>
         LET m == LastMove(history)
         IN /\ Own(m.piece, pre.turn)
            /\ m.start # m.end
            /\ Own(Cell(board, m.end), pre.turn)

\* C5: checkers is_valid_move accepts a move only if |dx| is 1 or 2, so
\* every Move of the history has |dx| in {1, 2}.
C5_StepOrJumpOnly ==
  game = "checkers" =>
    /\ \A t \in Sides : \A start \in Squares : \A end \in Squares :
         AbsDx(start, end) \notin {1, 2}
           => ~CheckersBoard_is_valid_move(board, start, end, t).ok
    /\ \A i \in 1 .. Len(history) :
         AbsDx(history[i].start, history[i].end) \in {1, 2}

\* C6: for an Archer of either side is_valid_move is True iff the
\* displacement is exactly 3 along one axis and the end square holds an
\* opposing piece.
C6_ArcherCapturesAtThree ==
  game = "chess" =>
    \A t \in Sides : \A start \in Squares :
      Cell(board, start) = (IF t = "white" THEN "A" ELSE "a") =>
        \A end \in Squares :
          ChessBoard_is_valid_move(board, start, end, t)
            <=> /\ <<AbsDx(start, end), AbsDy(start, end)>>
                     \in {<<3, 0>>, <<0, 3>>}
                /\ Opposing(Cell(board, end), t)

\* C7: for a man of the side on start, an empty end and a forward
\* displacement with |dx| = |dy| = 2, is_valid_move returns (True, midpoint)
\* iff the midpoint holds an opposing man and (False, None) otherwise; an
\* accepted step with |dx| = 1 returns no captured square and its Move
\* records the captured piece ' '.
C7_JumpLegality ==
  game = "checkers" =>
    /\ \A t \in Sides : \A start \in Squares :
         Cell(board, start) = Man(t) =>
           \A end \in Squares :
             LET v == CheckersBoard_is_valid_move(board, start, end, t)
                 mid == <<(start[1] + end[1]) \div 2,
                          (start[2] + end[2]) \div 2>>
                 forward == IF t = "white" THEN end[2] < start[2]
                            ELSE end[2] > start[2]
             IN /\ (Cell(board, end) = " " /\ forward
                    /\ AbsDx(start, end) = 2 /\ AbsDy(start, end) = 2)
                   => IF Cell(board, mid) = Man(Other(t))
                      THEN v = Verdict(TRUE, mid)
                      ELSE v = Verdict(FALSE, None)
                /\ (v.ok /\ AbsDx(start, end) = 1)
                   => v.captured_position = None
    /\ \A i \in 1 .. Len(history) :
         AbsDx(history[i].start, history[i].end) = 1
           => /\ history[i].captured_position = None
              /\ history[i].captured_piece = " "

\* A jump has just been accepted over an opposing man while another forward
\* jump of the same side is refused because its midpoint holds an own man.
C7_Witness ==
  /\ game = "checkers" /\ event = "moved"
  /\ LET m == LastMove(history)
     IN /\ m.captured_position # None
        /\ m.captured_piece = Man(turn)
        /\ Cell(board, m.captured_position) = " "
  /\ \E start \in Squares : \E end \in Squares :
       /\ Cell(pre.board, start) = Man(pre.turn) /\ Cell(pre.board, end) = " "
       /\ AbsDx(start, end) = 2 /\ AbsDy(start, end) = 2
       /\ IF pre.turn = "white" THEN end[2] < start[2] ELSE end[2] > start[2]
       /\ ~CheckersBoard_is_valid_move(pre.board, start, end, pre.turn).ok

\* C8: every accepted checkers submit moves a man of the side to move onto
\* an empty square, to a lower row of the grid for a White man and to a
\* higher row for a Black man.
C8_ForwardOnly ==
  (game = "checkers" /\ event = "moved") =>
    LET m == LastMove(history)
    IN /\ m.piece = Man(pre.turn)
       /\ Cell(pre.board, m.end) = " "
       /\ Cell(board, m.end) = m.piece
       /\ m.piece = "w" => Rank(m.end) < Rank(m.start)
       /\ m.piece = "b" => Rank(m.end) > Rank(m.start)

\* C9: for a Wizard of the side is_valid_move is True iff the end square is
\* not an own piece and either the Chebyshev distance is at most 1 or the end
\* square is Empty.
C9_WizardStepOrTeleport ==
  game = "chess" =>
    \A t \in Sides : \A start \in Squares :
      Cell(board, start) = (IF t = "white" THEN "W" ELSE "w") =>
        \A end \in Squares :
          ChessBoard_is_valid_move(board, start, end, t)
            <=> /\ ~Own(Cell(board, end), t)
                /\ Chebyshev(start, end) <= 1 \/ Cell(board, end) = " "

\* A Wizard has just captured an opposing piece next to it, and from where it
\* stood other opposing pieces, further away, were refused.
C9_Witness ==
  /\ game = "chess" /\ event = "moved"
  /\ LET m == LastMove(history)
     IN /\ lower(m.piece) = "w"
        /\ Opposing(m.captured_piece, pre.turn)
        /\ Chebyshev(m.start, m.end) = 1
        /\ \E end \in Squares :
             /\ Opposing(Cell(pre.board, end), pre.turn)
             /\ Chebyshev(m.start, end) > 1
             /\ ~ChessBoard_is_valid_move(pre.board, m.start, end, pre.turn)

\* C10: for a Hunter of the side is_valid_move is True exactly for the
\* displacements (+2,0), (-2,0), (0,+2), (0,-2) onto a square that holds no
\* own piece, whatever stands in between.
C10_HunterTwoAlongAxis ==
  game = "chess" =>
    \A t \in Sides : \A start \in Squares :
      Cell(board, start) = (IF t = "white" THEN "H" ELSE "h") =>
        \A end \in Squares :
          ChessBoard_is_valid_move(board, start, end, t)
            <=> /\ <<end[1] - start[1], end[2] - start[2]>>
                     \in {<<2, 0>>, <<-2, 0>>, <<0, 2>>, <<0, -2>>}
                /\ ~Own(Cell(board, end), t)

\* A Hunter has just moved two squares over an occupied square.
C10_Witness ==
  /\ game = "chess" /\ event = "moved"
  /\ LET m == LastMove(history)
         between == <<(m.start[1] + m.end[1]) \div 2,
                      (m.start[2] + m.end[2]) \div 2>>
     IN /\ lower(m.piece) = "h"
        /\ PosOk(m.start) /\ m.start \in Squares /\ m.end \in Squares
        /\ Cell(pre.board, between) # " "
        /\ Cell(board, m.end) = m.piece

\* The rounds that can change the board. Every board of a session is first
\* the board of a state reached by the construction, an accepted submit or
\* an undo; after any other round the board is the one the round found
\* (pre.board). A property of the board that holds in all the states with
\* NewBoard therefore holds for the board of every reachable state.
NewBoard == event \in {"init", "moved", "undone"}

\* The number of cells of a chess board that hold a piece of side t.
PieceCount(b, t) == Cardinality({ p \in Squares : Own(Cell(b, p), t) })

\* C11: chess is_valid_move is False whenever the end square holds a piece of
\* the moving side, whatever stands on the start square; every accepted
\* submit leaves the number of pieces of the side that moved unchanged and
\* records a captured piece that is Empty or of the other side.
\* The board is examined in the states with NewBoard, which show every
\* board of the session.
C11_NoSelfCapture ==
  game = "chess" =>
    /\ ~NewBoard => board = pre.board
    /\ NewBoard =>
         \A t \in Sides : \A end \in Squares :
           Own(Cell(board, end), t) =>
             \A start \in Squares :
               ~ChessBoard_is_valid_move(board, start, end, t)
    /\ event = "moved" =>
         LET m == LastMove(history)
         IN /\ PieceCount(board, pre.turn) = PieceCount(pre.board, pre.turn)
            /\ m.captured_piece = " " \/ Opposing(m.captured_piece, pre.turn)

\* A piece of the side to move has just taken an opposing piece: the other
\* side has one piece less, the mover as many as before.
C11_Witness ==
  /\ game = "chess" /\ event = "moved"
  /\ LET m == LastMove(history)
     IN /\ Own(m.piece, pre.turn)
        /\ Opposing(m.captured_piece, pre.turn)
        /\ PieceCount(board, turn) = PieceCount(pre.board, turn) - 1
        /\ PieceCount(board, pre.turn) = PieceCount(pre.board, pre.turn)

\* The King of a side.
King(t) == IF t = "white" THEN "K" ELSE "k"

\* Some square holding a piece of the other side passes is_valid_move onto
\* the square, with the other side as the mover.
Attacked(b, square, t) ==
  \E start \in Squares :
    /\ Opposing(Cell(b, start), t)
    /\ ChessBoard_is_valid_move(b, start, square, Other(t))

\* The elements of a list.
Range(list) == { list[i] : i \in 1 .. Len(list) }

\* C12: is_in_check(side) is True iff a King of the side is on the board and
\* some opposing piece passes is_valid_move onto the King's square with the
\* opponent as mover; it is False when no King of the side is on the board;
\* the threat round, which calls it, leaves board, side to move and history
\* as they were.
C12_InCheck ==
  game = "chess" =>
    /\ \A t \in Sides :
         /\ ChessBoard_is_in_check(board, t)
              <=> \E k \in Squares :
                    Cell(board, k) = King(t) /\ Attacked(board, k, t)
         /\ (\A k \in Squares : Cell(board, k) # King(t))
              => ~ChessBoard_is_in_check(board, t)
    /\ event = "threat" => Snapshot = pre

\* The threat round has just run with no King of the side to move on the
\* board, its answer False, while the King of the other side is in check.
C12_Witness ==
  /\ game = "chess" /\ event = "threat"
  /\ \A k \in Squares : Cell(board, k) # King(turn)
  /\ ~ChessBoard_is_in_check(board, turn)
  /\ \E k \in Squares : Cell(board, k) = King(Other(turn))
  /\ ChessBoard_is_in_check(board, Other(turn))

\* C13: is_under_attack(square, side) is True iff some square holding an
\* opposing piece passes is_valid_move onto the square with the opponent as
\* mover; get_threatened_pieces(side) lists, once each, exactly the squares
\* that hold a piece of the side and are under attack, so never an Empty
\* square or a square of an opposing piece; the King's square is listed iff
\* is_in_check(side).
\* The board is examined in the states with NewBoard, which show every
\* board of the session.
C13_ThreatenedPieces ==
  game = "chess" =>
    /\ ~NewBoard => board = pre.board
    /\ NewBoard =>
         \A t \in Sides :
           LET threatened == ChessBoard_get_threatened_pieces(board, t)
           IN /\ \A square \in Squares :
                   ChessBoard_is_under_attack(board, square, t)
                     <=> Attacked(board, square, t)
              /\ Range(threatened)
                   = { square \in Squares : /\ Own(Cell(board, square), t)
                                            /\ Attacked(board, square, t) }
              /\ Len(threatened) = Cardinality(Range(threatened))
              /\ \A square \in Range(threatened) :
                   /\ Cell(board, square) # " "
                   /\ ~Opposing(Cell(board, square), t)
              /\ \A k \in Squares :
                   Cell(board, k) = King(t)
                     => (k \in Range(threatened)
                           <=> ChessBoard_is_in_check(board, t))

\* The threat round has just run for a side that has lost a piece: its King
\* is among its threatened pieces, while an Empty square under attack and
\* the squares of the opposing pieces are not listed.
C13_Witness ==
  /\ game = "chess" /\ event = "threat"
  /\ LET threatened == Range(ChessBoard_get_threatened_pieces(board, turn))
     IN /\ \E k \in threatened : Cell(board, k) = King(turn)
        /\ \E square \in Squares \ threatened :
             /\ Cell(board, square) = " "
             /\ ChessBoard_is_under_attack(board, square, turn)
        /\ \A square \in threatened : Own(Cell(board, square), turn)
  /\ history # <<>>
  /\ Own(LastMove(history).captured_piece, turn)

\* C14: no coordinate outside 0..7 is accepted as a move or stored in a
\* Move: every record of the history, in both sessions, has its start and
\* its end on the grid, and a submit with such a coordinate changes nothing.
C14_OutOfBounds ==
  /\ \A i \in 1 .. Len(history) :
       history[i].start \in Squares /\ history[i].end \in Squares
  /\ event = "raised" => Snapshot = pre

\* The moves the claim C15 lets get_possible_moves return for a side: from
\* every man of the side and in each of the four diagonal directions, the
\* neighbour if it is on the grid and Empty, and the square beyond it if the
\* neighbour holds an opposing man and the square beyond is on the grid and
\* Empty.
C15_Moves(b, t) ==
  { m \in Squares \X Squares :
      /\ Cell(b, m[1]) = Man(t)
      /\ \E d \in Range(Directions) :
           LET new == <<m[1][1] + d[1], m[1][2] + d[2]>>
               jump == <<new[1] + d[1], new[2] + d[2]>>
           IN \/ m[2] = new /\ Cell(b, new) = " "
              \/ /\ m[2] = jump
                 /\ new \in Squares
                 /\ Cell(b, new) = Man(Other(t))
                 /\ Cell(b, jump) = " " }

\* C15: get_possible_moves(side) returns exactly those moves: never a jump
\* over an own man, never a destination off the grid or occupied, never a
\* move of a man of the other side.
C15_GenerateMoves ==
  game = "checkers" =>
    \A t \in Sides :
      Range(CheckersBoard_get_possible_moves(board, t)) = C15_Moves(board, t)

\* The cell values of the two programs and their initial boards.
Alphabet ==
  IF game = "chess" THEN LowerLetters \cup UpperLetters \cup {" "}
  ELSE {"w", "b", " "}

InitBoard == IF game = "chess" THEN ChessInitBoard ELSE CheckersInitBoard

\* The number of cells of a board that hold the value c.
Holding(b, c) == Cardinality({ p \in Squares : Cell(b, p) = c })

\* C16: in every reachable state of both sessions the board is a list of 8
\* rows of 8 cells, every cell holds one value of the program's alphabet, and
\* no piece of any kind and side is on the board more often than in the
\* initial placement.
C16_SingleOwner ==
  /\ DOMAIN board = 1 .. Size
  /\ \A y \in 1 .. Size :
       /\ DOMAIN board[y] = 1 .. Size
       /\ \A x \in 1 .. Size : board[y][x] \in Alphabet
  /\ \A c \in Alphabet \ {" "} : Holding(board, c) <= Holding(InitBoard, c)

\* A move has just been taken back while an earlier capture stands: one
\* piece is missing from the board and nothing is there twice.
C16_Witness ==
  /\ event = "undone" /\ history # <<>>
  /\ LastMove(history).captured_piece # " "
  /\ Holding(board, LastMove(history).captured_piece)
       = Holding(InitBoard, LastMove(history).captured_piece) - 1
  /\ Holding(board, LastMove(history).piece)
       = Holding(InitBoard, LastMove(history).piece)

\* The Pawn, Knight, Bishop, Rook, Queen and King of a side.
StandardPieces(t) ==
  IF t = "white" THEN {"P", "N", "B", "R", "Q", "K"}
  ELSE {"p", "n", "b", "r", "q", "k"}

CellOf(pos) == <<PyIndex(pos[1]), PyIndex(pos[2])>>

\* All of a list but its last element.
Front(list) == SubSeq(list, 1, Len(list) - 1)

\* The captured square of a Move, if it has one (a checkers jump).
Jumped(m) ==
  IF game = "checkers" /\ m.captured_position # None
  THEN {m.captured_position} ELSE {}

\* C18: after an accepted submit, in both sessions, the start square is
\* Empty, the end square holds the piece that was on the start square, the
\* captured square of a checkers jump is Empty and every other square is as
\* it was; the Move appended to the history holds the start, the end, the
\* piece that moved and the piece that was removed (' ' if none).
C18_SubmitEffectAndFrame ==
  event = "moved" =>
    LET m == LastMove(history)
    IN /\ history = Append(pre.history, m)
       /\ m.piece = Cell(pre.board, m.start)
       /\ Cell(board, m.start) = " "
       /\ Cell(board, m.end) = m.piece
       /\ \A pos \in Jumped(m) :
            /\ Cell(board, pos) = " "
            /\ m.captured_piece = Cell(pre.board, pos)
       /\ Jumped(m) = {} => m.captured_piece = Cell(pre.board, m.end)
       /\ \A p \in Squares :
            p \notin { CellOf(pos) : pos \in {m.start, m.end} \cup Jumped(m) }
              => Cell(board, p) = Cell(pre.board, p)

\* A checkers jump has just been made: exactly three squares have changed,
\* the start, the end and the square of the jumped man.
C18_Witness ==
  /\ game = "checkers" /\ event = "moved"
  /\ LET m == LastMove(history)
     IN /\ m.captured_position # None
        /\ m.captured_piece = Man(turn)
        /\ { p \in Squares : Cell(board, p) # Cell(pre.board, p) }
             = {m.start, m.end, m.captured_position}
        /\ Cardinality({m.start, m.end, m.captured_position}) = 3

\* C19: in every reachable state of both sessions White is to move iff the
\* history has an even length; an accepted submit appends one Move and flips
\* the side, a successful undo removes the last Move and flips the side, and
\* after any other round history and side are what they were.
C19_TurnHistoryParity ==
  /\ turn = "white" <=> Len(history) % 2 = 0
  /\ event = "moved" =>
       /\ history # <<>> /\ Front(history) = pre.history
       /\ turn = Other(pre.turn)
  /\ event = "undone" =>
       /\ pre.history # <<>> /\ history = Front(pre.history)
       /\ turn = Other(pre.turn)
  /\ event \notin {"moved", "undone"} =>
       /\ history = pre.history
       /\ turn = pre.turn

\* The second move of a game has just been taken back: one Move is left and
\* Black is to move again.
C19_Witness ==
  /\ event = "undone"
  /\ Len(pre.history) = 2 /\ Len(history) = 1
  /\ pre.turn = "white" /\ turn = "black"

\* Board.move_piece / Board.undo_move of the running program for a Move.
Redo(b, m) ==
  IF game = "chess" THEN ChessBoard_move_piece(b, m.start, m.end)
  ELSE CheckersBoard_move_piece(b, m.start, m.end, m.captured_position)

Undo(b, m) ==
  IF game = "chess" THEN ChessBoard_undo_move(b, m)
  ELSE CheckersBoard_undo_move(b, m)

\* The initial board with the Moves of a history applied in order.
RECURSIVE Replay(_)
Replay(h) == IF h = <<>> THEN InitBoard ELSE Redo(Replay(Front(h)), LastMove(h))

\* The board left by undoing the Moves of a history, the last one first.
RECURSIVE Unwind(_, _)
Unwind(b, h) == IF h = <<>> THEN b ELSE Unwind(Undo(b, LastMove(h)), Front(h))

\* C20: in every reachable state of both sessions the board is the initial
\* placement with the Moves of the history applied in order, and undoing the
\* whole history gives the initial placement; with an empty history the
\* session is the initial one, White to move.
C20_HistoryReplay ==
  /\ board = Replay(history)
  /\ Unwind(board, history) = InitBoard
  /\ history = <<>> => board = InitBoard /\ turn = "white"

\* The only Move of the history, a capture, has just been taken back: the
\* history is empty, the board is the initial placement again and White is
\* to move.
C20_Witness ==
  /\ event = "undone" /\ history = <<>>
  /\ board = InitBoard /\ turn = "white"
  /\ pre.board # InitBoard
  /\ LastMove(pre.history).captured_piece # " "

\* C21: in every reachable state of the chess session each side has at most
\* one King on the board; a side that has lost its King has one again only
\* after an undo.
C21_KingUniqueness ==
  game = "chess" =>
    \A t \in Sides :
      /\ Holding(board, King(t)) <= 1
      /\ (Holding(pre.board, King(t)) = 0 /\ Holding(board, King(t)) = 1)
           => event = "undone"

\* The capture of a King has just been taken back: the board the undo found
\* had no King of that side and the side has its one King again.
C21_Witness ==
  /\ game = "chess" /\ event = "undone"
  /\ LET m == LastMove(pre.history)
     IN /\ m.captured_piece = King(Other(turn))
        /\ Holding(pre.board, King(Other(turn))) = 0
        /\ Holding(board, King(Other(turn))) = 1
        /\ Cell(board, m.end) = King(Other(turn))

\* The squares of the colour the men start on: file + rank index is odd.
Dark(pos) == (pos[1] + pos[2]) % 2 = 1

\* Every Move of a history has its start and its end on the grid.
InRange(h) ==
  \A i \in 1 .. Len(h) : h[i].start \in Squares /\ h[i].end \in Squares

\* C22: in every reachable state of the checkers session every man stands on
\* a square whose file + rank index is odd, and is_valid_move accepts no move
\* of a man to a square of the other colour.
C22_SquareColour ==
  game = "checkers" =>
    /\ \A p \in Squares : Cell(board, p) # " " => Dark(p)
    /\ \A t \in Sides : \A start \in Squares :
         Cell(board, start) = Man(t) =>
           \A end \in Squares :
             CheckersBoard_is_valid_move(board, start, end, t).ok => Dark(end)

\* In a game played with coordinates of the grid only, a move has just been
\* accepted and then taken back, and a submit of a man of the side to move
\* forward onto the empty square e4, of the other colour, is refused.
C22_Witness ==
  /\ game = "checkers" /\ event = "undone"
  /\ InRange(pre.history) /\ history # <<>>
  /\ Cell(board, <<4, 4>>) = " " /\ ~Dark(<<4, 4>>)
  /\ \E start \in CheckersSquares \cap Squares :
       /\ Cell(board, start) = Man(turn)
       /\ IF turn = "white" THEN start[2] > 4 ELSE start[2] < 4
       /\ ~CheckersBoard_is_valid_move(board, start, <<4, 4>>, turn).ok

\* The sum of the rank indices of the White men plus the sum of 7 - rank
\* index of the Black men on the first k squares of the scan.
RECURSIVE ProgressUpTo(_, _)
ProgressUpTo(b, k) ==
  IF k = 0 THEN 0
  ELSE LET pos == RowMajor[k]
           term == IF Cell(b, pos) = "w" THEN pos[2]
                   ELSE IF Cell(b, pos) = "b" THEN (Size - 1) - pos[2]
                   ELSE 0
       IN ProgressUpTo(b, k - 1) + term

Progress(b) == ProgressUpTo(b, Size * Size)

\* C23: in a checkers run in which only moves are submitted, with
\* coordinates of the grid, every accepted move makes the sum of the rank
\* indices of the White men plus the sum of 7 - rank index of the Black men
\* strictly smaller, and from some round on no submit is accepted any more.
C23_ProgressBound ==
  /\ [][event' = "moved" => Progress(board') < Progress(board)]_vars
  /\ <>[][event' # "moved"]_vars

\* A run has come to its end after a jump: one man at least is off the
\* board, the sum has gone down and every pair of the submitted squares is
\* rejected, for the side to move and on this board.
C23_Witness ==
  /\ game = "checkers" /\ event = "illegal"
  /\ \E i \in 1 .. Len(history) : history[i].captured_position # None
  /\ Progress(board) < Progress(CheckersInitBoard)
  /\ CheckersGridRejected(board, turn)
       = CheckersGridSquares \X CheckersGridSquares

====
